---------------------------- MODULE Spec2Model ----------------------------
(***************************************************************************)
(* aolfclub: the canonical QuerySpec, the in-memory DummyDataSource that   *)
(* executes it (filter -> sort -> paginate), the collection services that  *)
(* forward to it and the SolidStart query() endpoints in front of them.    *)
(*                                                                         *)
(* JavaScript values are tagged records [t, v, elems]: t is the type, v a  *)
(* sequence of integers (the UTF-16 code units of a string, the one number *)
(* of a number), elems the elements of an array.  Strings are sequences of *)
(* code units so that String(), toLowerCase(), includes(), atob(), btoa()  *)
(* and parseInt() are computed, not assumed.                               *)
(***************************************************************************)
EXTENDS Integers, Sequences, FiniteSets, TLC

(***************************************************************************)
(* Numbers.  NaN and undefined are the two non-integer numbers the code    *)
(* can compute with (parseInt of a non-numeric string, a missing           *)
(* pageSize); they are encoded as two integers outside the model's range.  *)
(* Numbers are IEEE doubles: the integers of the model are exact, and      *)
(* Huge stands for 10^20, a double whose neighbours are 16384 away.        *)
(***************************************************************************)
NaN == -1000001
Undefined == -1000002

\* 10^20 (and -Huge for -10^20): above every offset and length
Huge == 1000000

IsNum(x) == x # NaN /\ x # Undefined
IsHuge(x) == x = Huge \/ x = -Huge

\* ToNumber(undefined) is NaN
ToNumber(x) == IF x = Undefined THEN NaN ELSE x

\* a + b and a * b of two JS numbers
\* 10^20 + b rounds to 10^20 for every b the model adds (|b| < 8192)
JsAdd(a, b) ==
  IF ~(IsNum(a) /\ IsNum(b)) THEN NaN
  ELSE IF IsHuge(a) THEN a
  ELSE IF IsHuge(b) THEN b
  ELSE a + b
JsMul(a, b) == IF IsNum(a) /\ IsNum(b) THEN a * b ELSE NaN

\* a variant of JsLess that reads <= for <
JsLess_orEqual(a, b) == IsNum(a) /\ IsNum(b) /\ a <= b

\* a variant of JsLess that reads !== for <
JsLess_notEqual(a, b) == IsNum(a) /\ IsNum(b) /\ a # b

\* a < b of two JS numbers: false when either is NaN
JsLess(a, b) == IsNum(a) /\ IsNum(b) /\ a < b

Min(a, b) == IF a < b THEN a ELSE b
Max(a, b) == IF a > b THEN a ELSE b

(***************************************************************************)
(* Strings as sequences of code units.                                     *)
(***************************************************************************)
RECURSIVE DigitsOf(_)
DigitsOf(n) == IF n < 10 THEN <<48 + n>> ELSE Append(DigitsOf(n \div 10), 48 + (n % 10))

\* the digits of 10^20: "100000000000000000000"
HugeDigits == <<49>> \o [i \in 1..20 |-> 48]

\* String(n) of a JS number: "NaN", "undefined" or the decimal digits
\* (numbers below 10^21 are written without an exponent)
NumToString(n) ==
  IF n = NaN THEN <<78, 97, 78>>
  ELSE IF n = Undefined THEN <<117, 110, 100, 101, 102, 105, 110, 101, 100>>
  ELSE IF n = Huge THEN HugeDigits
  ELSE IF n = -Huge THEN <<45>> \o HugeDigits
  ELSE IF n < 0 THEN <<45>> \o DigitsOf(-n)
  ELSE DigitsOf(n)

IsWhitespace(c) == c \in {9, 10, 12, 13, 32}
IsDigit(c) == c >= 48 /\ c <= 57

RECURSIVE SkipWhitespace(_)
SkipWhitespace(s) ==
  IF s # <<>> /\ IsWhitespace(Head(s)) THEN SkipWhitespace(Tail(s)) ELSE s

RECURSIVE LeadingDigits(_)
LeadingDigits(s) ==
  IF s # <<>> /\ IsDigit(Head(s)) THEN <<Head(s)>> \o LeadingDigits(Tail(s)) ELSE <<>>

RECURSIVE DigitsValue(_, _)
DigitsValue(ds, acc) ==
  IF ds = <<>> THEN acc ELSE DigitsValue(Tail(ds), acc * 10 + (Head(ds) - 48))

\* parseInt(s, 10): leading white space, an optional sign, then the longest
\* run of decimal digits; NaN when there is no digit
parseInt(s) ==
  LET t == SkipWhitespace(s)
      neg == t # <<>> /\ Head(t) = 45
      signed == t # <<>> /\ Head(t) \in {43, 45}
      ds == LeadingDigits(IF signed THEN Tail(t) ELSE t)
  IN IF ds = <<>> THEN NaN
     ELSE IF ds = HugeDigits THEN (IF neg THEN -Huge ELSE Huge)
     ELSE IF neg THEN -DigitsValue(ds, 0) ELSE DigitsValue(ds, 0)

\* String.prototype.toLowerCase on the ASCII letters
toLowerCase(s) == [i \in 1..Len(s) |-> IF s[i] >= 65 /\ s[i] <= 90 THEN s[i] + 32 ELSE s[i]]

startsWith(s, p) == Len(p) <= Len(s) /\ SubSeq(s, 1, Len(p)) = p
endsWith(s, p) == Len(p) <= Len(s) /\ SubSeq(s, Len(s) - Len(p) + 1, Len(s)) = p
includes(s, p) == \E i \in 0..(Len(s) - Len(p)) : SubSeq(s, i + 1, i + Len(p)) = p

\* s < t of two strings: code unit by code unit, a proper prefix is smaller
RECURSIVE StrLess(_, _)
StrLess(s, t) ==
  IF t = <<>> THEN FALSE
  ELSE IF s = <<>> THEN TRUE
  ELSE IF Head(s) # Head(t) THEN Head(s) < Head(t)
  ELSE StrLess(Tail(s), Tail(t))

(***************************************************************************)
(* Base64 (btoa / atob).                                                   *)
(***************************************************************************)
B64Alphabet ==
  [i \in 0..63 |-> IF i < 26 THEN 65 + i
                   ELSE IF i < 52 THEN 97 + (i - 26)
                   ELSE IF i < 62 THEN 48 + (i - 52)
                   ELSE IF i = 62 THEN 43 ELSE 47]

B64Index(c) == CHOOSE i \in 0..63 : B64Alphabet[i] = c
IsB64Char(c) == \E i \in 0..63 : B64Alphabet[i] = c

\* btoa: three bytes become four characters, the tail is padded with '='
RECURSIVE btoa(_)
btoa(b) ==
  IF b = <<>> THEN <<>>
  ELSE IF Len(b) = 1 THEN
    <<B64Alphabet[b[1] \div 4], B64Alphabet[(b[1] % 4) * 16], 61, 61>>
  ELSE IF Len(b) = 2 THEN
    <<B64Alphabet[b[1] \div 4], B64Alphabet[(b[1] % 4) * 16 + (b[2] \div 16)],
      B64Alphabet[(b[2] % 16) * 4], 61>>
  ELSE
    <<B64Alphabet[b[1] \div 4], B64Alphabet[(b[1] % 4) * 16 + (b[2] \div 16)],
      B64Alphabet[(b[2] % 16) * 4 + (b[3] \div 64)], B64Alphabet[b[3] % 64]>>
    \o btoa(SubSeq(b, 4, Len(b)))

RECURSIVE B64DecodeGroups(_)
B64DecodeGroups(ix) ==
  IF Len(ix) < 2 THEN <<>>
  ELSE IF Len(ix) = 2 THEN <<ix[1] * 4 + (ix[2] \div 16)>>
  ELSE IF Len(ix) = 3 THEN
    <<ix[1] * 4 + (ix[2] \div 16), (ix[2] % 16) * 16 + (ix[3] \div 4)>>
  ELSE
    <<ix[1] * 4 + (ix[2] \div 16), (ix[2] % 16) * 16 + (ix[3] \div 4),
      (ix[3] % 4) * 64 + ix[4]>>
    \o B64DecodeGroups(SubSeq(ix, 5, Len(ix)))

\* atob's input after its first two steps: white space removed, and one or
\* two trailing '=' removed when the length is a multiple of four
AtobStripped(s) ==
  LET w == SelectSeq(s, LAMBDA c : ~IsWhitespace(c))
      n == Len(w)
  IN IF n % 4 = 0 /\ n >= 2 /\ w[n] = 61 /\ w[n - 1] = 61 THEN SubSeq(w, 1, n - 2)
     ELSE IF n % 4 = 0 /\ n >= 1 /\ w[n] = 61 THEN SubSeq(w, 1, n - 1)
     ELSE w

\* atob throws InvalidCharacterError on these
AtobThrows(s) ==
  LET w == AtobStripped(s)
  IN Len(w) % 4 = 1 \/ \E i \in 1..Len(w) : ~IsB64Char(w[i])

\* atob of a string it accepts
atob(s) ==
  LET w == AtobStripped(s)
  IN B64DecodeGroups([i \in 1..Len(w) |-> B64Index(w[i])])

(***************************************************************************)
(* JavaScript values of item fields and of FilterCondition.value.          *)
(*   num   a number                 str   a string                         *)
(*   undef undefined (also what reading a missing field gives)             *)
(*   sym   a Symbol: converting it to a number throws a TypeError          *)
(*   arr   an array of num/str/undef values (a filter value for "in")      *)
(***************************************************************************)
Num(n) == [t |-> "num", v |-> <<n>>, elems |-> <<>>]
Str(s) == [t |-> "str", v |-> s, elems |-> <<>>]
Undef == [t |-> "undef", v |-> <<>>, elems |-> <<>>]
Sym == [t |-> "sym", v |-> <<>>, elems |-> <<>>]
Arr(es) == [t |-> "arr", v |-> <<>>, elems |-> es]

RECURSIVE JoinComma(_)

\* String(x)
JsString(x) ==
  IF x.t = "num" THEN NumToString(x.v[1])
  ELSE IF x.t = "str" THEN x.v
  ELSE IF x.t = "undef" THEN NumToString(Undefined)
  ELSE IF x.t = "sym" THEN <<83, 121, 109, 98, 111, 108, 40, 41>>
  ELSE JoinComma(x.elems)

\* Array.prototype.join(","): an undefined element gives the empty string
JoinComma(es) ==
  IF es = <<>> THEN <<>>
  ELSE LET h == IF Head(es).t = "undef" THEN <<>> ELSE JsString(Head(es))
       IN IF Len(es) = 1 THEN h ELSE h \o <<44>> \o JoinComma(Tail(es))

\* ToPrimitive: an array becomes its string
ToPrimitive(x) == IF x.t = "arr" THEN Str(JoinComma(x.elems)) ELSE x

\* StringToNumber on the strings that occur here: white space only is 0, an
\* optionally signed run of digits is its value, anything else is NaN
StringToNumber(s) ==
  LET t == SkipWhitespace(s)
      body == IF t # <<>> /\ Head(t) \in {43, 45} THEN Tail(t) ELSE t
      ds == LeadingDigits(body)
  IN IF t = <<>> THEN 0
     ELSE IF ds # <<>> /\ Len(ds) = Len(body) THEN parseInt(t)
     ELSE NaN

\* ToNumber of a primitive that is not a Symbol
ValToNumber(x) ==
  IF x.t = "num" THEN x.v[1]
  ELSE IF x.t = "str" THEN StringToNumber(x.v)
  ELSE NaN

\* a === b (two Symbols, and two arrays, are never the same object here)
StrictEquals(a, b) == a.t = b.t /\ a.t \in {"num", "str", "undef"} /\ a.v = b.v

\* a < b throws a TypeError when a Symbol has to become a number
RelationalThrows(a, b) == a.t = "sym" \/ b.t = "sym"

\* both operands compare: two strings, or two numbers neither of them NaN
Comparable(a, b) ==
  LET pa == ToPrimitive(a)
      pb == ToPrimitive(b)
  IN (pa.t = "str" /\ pb.t = "str")
     \/ (IsNum(ValToNumber(pa)) /\ IsNum(ValToNumber(pb)))

\* a < b when it does not throw
LessThan(a, b) ==
  LET pa == ToPrimitive(a)
      pb == ToPrimitive(b)
  IN IF pa.t = "str" /\ pb.t = "str" THEN StrLess(pa.v, pb.v)
     ELSE JsLess(ValToNumber(pa), ValToNumber(pb))

\* item[field]: undefined when the item has no such property
Field(item, field) == IF field \in DOMAIN item THEN item[field] ELSE Undef

(***************************************************************************)
(* QuerySpec.  A spec is [filters, sorting, pagination, absent]: absent is *)
(* the set of top-level keys a raw (unvalidated) spec lacks; a QuerySpec   *)
(* that passed validation, or that a typed caller built, lacks none.       *)
(* pagination is [pageSize, pageIndex, cursor]: pageSize and pageIndex are *)
(* numbers or Undefined, cursor is [present, s].                           *)
(***************************************************************************)
FilterOperators ==
  {"eq", "neq", "contains", "startsWith", "endsWith", "gt", "lt", "gte", "lte", "in"}

SortDirections == {"asc", "desc"}

NoCursor == [present |-> FALSE, s |-> <<>>]
Cursor(s) == [present |-> TRUE, s |-> s]

\* a variant of Truthy that takes any present cursor, the empty string too
Truthy_present(cursor) == cursor.present

\* if (cursor): a present, non-empty string
Truthy(cursor) == cursor.present /\ cursor.s # <<>>

(***************************************************************************)
(* DummyDataSource.applyFilters                                            *)
(***************************************************************************)
\* evaluating one condition on one item throws
ConditionThrows(item, filter) ==
  filter.op \in {"gt", "lt", "gte", "lte"}
  /\ RelationalThrows(Field(item, filter.field), filter.value)

\* a variant of ConditionHolds whose default case drops the item
ConditionHolds_failClosed(item, filter) ==
  LET value == Field(item, filter.field)
      filterValue == filter.value
  IN CASE filter.op = "eq" -> StrictEquals(value, filterValue)
       [] filter.op = "contains" ->
            includes(toLowerCase(JsString(value)), toLowerCase(JsString(filterValue)))
       [] filter.op = "gt" -> LessThan(filterValue, value)
       [] filter.op = "lt" -> LessThan(value, filterValue)
       [] filter.op = "gte" -> Comparable(value, filterValue) /\ ~LessThan(value, filterValue)
       [] filter.op = "lte" -> Comparable(value, filterValue) /\ ~LessThan(filterValue, value)
       [] filter.op = "in" ->
            filterValue.t = "arr"
            /\ \E i \in 1..Len(filterValue.elems) : StrictEquals(filterValue.elems[i], value)
       [] filter.op = "neq" -> ~StrictEquals(value, filterValue)
       [] filter.op = "startsWith" ->
            startsWith(toLowerCase(JsString(value)), toLowerCase(JsString(filterValue)))
       [] filter.op = "endsWith" ->
            endsWith(toLowerCase(JsString(value)), toLowerCase(JsString(filterValue)))
       [] OTHER -> FALSE

\* the switch on filter.op, when it does not throw
ConditionHolds(item, filter) ==
  LET value == Field(item, filter.field)
      filterValue == filter.value
  IN CASE filter.op = "eq" -> StrictEquals(value, filterValue)
       [] filter.op = "contains" ->
            includes(toLowerCase(JsString(value)), toLowerCase(JsString(filterValue)))
       [] filter.op = "gt" -> LessThan(filterValue, value)
       [] filter.op = "lt" -> LessThan(value, filterValue)
       [] filter.op = "gte" -> Comparable(value, filterValue) /\ ~LessThan(value, filterValue)
       [] filter.op = "lte" -> Comparable(value, filterValue) /\ ~LessThan(filterValue, value)
       [] filter.op = "in" ->
            filterValue.t = "arr"
            /\ \E i \in 1..Len(filterValue.elems) : StrictEquals(filterValue.elems[i], value)
       [] filter.op = "neq" -> ~StrictEquals(value, filterValue)
       [] filter.op = "startsWith" ->
            startsWith(toLowerCase(JsString(value)), toLowerCase(JsString(filterValue)))
       [] filter.op = "endsWith" ->
            endsWith(toLowerCase(JsString(value)), toLowerCase(JsString(filterValue)))
       [] OTHER -> TRUE

\* filters.every(...) on one item: "pass", "drop", or "throw" when a condition
\* throws before an earlier one has failed
RECURSIVE Every(_, _)
Every(item, filters) ==
  IF filters = <<>> THEN "pass"
  ELSE IF ConditionThrows(item, Head(filters)) THEN "throw"
  ELSE IF ~ConditionHolds(item, Head(filters)) THEN "drop"
  ELSE Every(item, Tail(filters))

\* items.filter(...) throws: filters is undefined and there is an item to
\* call it on, or the callback throws on some item
applyFiltersThrows(items, filters, filtersAbsent) ==
  IF filtersAbsent THEN items # <<>>
  ELSE \E i \in 1..Len(items) : Every(items[i], filters) = "throw"

\* a variant of applyFilters that keeps an item when some condition holds
applyFilters_some(items, filters) ==
  SelectSeq(items, LAMBDA item :
    filters = <<>> \/ \E i \in 1..Len(filters) : ConditionHolds(item, filters[i]))

\* items.filter(...) when it does not throw
applyFilters(items, filters) ==
  SelectSeq(items, LAMBDA item : Every(item, filters) = "pass")

(***************************************************************************)
(* DummyDataSource.applySorting: Array.prototype.sort with the comparator  *)
(* of the source.  V8 sorts an array of fewer than 64 elements as one run: *)
(* it takes the ascending (or strictly descending, then reversed) run the  *)
(* array starts with and inserts the other elements by binary insertion.   *)
(***************************************************************************)
\* the comparator: -1, 0, 1, or Throw when a comparison throws.  The steps
\* of one sortSpec are operators of their own, each taking the values the
\* step before it computed.
Throw == 2

RECURSIVE compare(_, _, _)

\* a variant of CompareResult that does not read the direction
CompareResult_ignoreDirection(a, b, sorting, comparison) ==
  IF comparison # 0 THEN comparison ELSE compare(a, b, Tail(sorting))

\* comparison !== 0 ? (direction === "asc" ? comparison : -comparison) : next
CompareResult(a, b, sorting, comparison) ==
  IF comparison # 0
  THEN (IF Head(sorting).direction = "asc" THEN comparison ELSE -comparison)
  ELSE compare(a, b, Tail(sorting))

\* aVal < bVal ? -1 : aVal > bVal ? 1 : 0
CompareValues(a, b, sorting, aVal, bVal) ==
  IF RelationalThrows(aVal, bVal) THEN Throw
  ELSE CompareResult(a, b, sorting,
         IF LessThan(aVal, bVal) THEN -1 ELSE IF LessThan(bVal, aVal) THEN 1 ELSE 0)

compare(a, b, sorting) ==
  IF sorting = <<>> THEN 0
  ELSE CompareValues(a, b, sorting,
                     Field(a, Head(sorting).field), Field(b, Head(sorting).field))

Reverse(s) == [i \in 1..Len(s) |-> s[Len(s) + 1 - i]]

Sorted(items) == [items |-> items, thrown |-> FALSE]
SortThrew(items) == [items |-> items, thrown |-> TRUE]

\* CountAndMakeRun's loop: the length of the run items starts with, or Throw
\* (no run is that short) when a comparison throws
RECURSIVE RunLength(_, _, _, _, _)

RunStep(items, sorting, idx, isDescending, runLength, order) ==
  IF order = Throw THEN 0
  ELSE IF isDescending /\ order >= 0 THEN runLength
  ELSE IF ~isDescending /\ order < 0 THEN runLength
  ELSE RunLength(items, sorting, idx + 1, isDescending, runLength + 1)

RunLength(items, sorting, idx, isDescending, runLength) ==
  IF idx > Len(items) THEN runLength
  ELSE RunStep(items, sorting, idx, isDescending, runLength,
               compare(items[idx], items[idx - 1], sorting))

\* the binary search of BinaryInsertionSort: the place of pivot in sorted,
\* or -1 when a comparison throws
RECURSIVE InsertionPoint(_, _, _, _, _)

InsertionStep(sorted, pivot, sorting, left, right, mid, order) ==
  IF order = Throw THEN -1
  ELSE InsertionPoint(sorted, pivot, sorting,
                      IF order < 0 THEN left ELSE mid + 1,
                      IF order < 0 THEN mid ELSE right)

InsertionPoint(sorted, pivot, sorting, left, right) ==
  IF left >= right THEN left
  ELSE InsertionStep(sorted, pivot, sorting, left, right, left + ((right - left) \div 2),
                     compare(pivot, sorted[left + ((right - left) \div 2) + 1], sorting))

\* BinaryInsertionSort: rest is inserted into sorted, element by element
RECURSIVE BinaryInsertionSort(_, _, _)

InsertAt(sorted, rest, sorting, at) ==
  IF at = -1 THEN SortThrew(sorted)
  ELSE BinaryInsertionSort(
         SubSeq(sorted, 1, at) \o <<Head(rest)>> \o SubSeq(sorted, at + 1, Len(sorted)),
         Tail(rest), sorting)

BinaryInsertionSort(sorted, rest, sorting) ==
  IF rest = <<>> THEN Sorted(sorted)
  ELSE InsertAt(sorted, rest, sorting,
                InsertionPoint(sorted, Head(rest), sorting, 0, Len(sorted)))

\* the run is reversed when it descends, and the rest inserted into it
SortFromRun(items, sorting, isDescending, runLength) ==
  IF runLength = 0 THEN SortThrew(items)
  ELSE BinaryInsertionSort(
         IF isDescending THEN Reverse(SubSeq(items, 1, runLength))
         ELSE SubSeq(items, 1, runLength),
         SubSeq(items, runLength + 1, Len(items)), sorting)

\* the first comparison decides whether the run ascends or descends
SortFromFirst(items, sorting, first) ==
  IF first = Throw THEN SortThrew(items)
  ELSE SortFromRun(items, sorting, first < 0, RunLength(items, sorting, 3, first < 0, 2))

\* items.sort(comparator): [items, thrown]
applySorting(items, sorting) ==
  IF Len(items) < 2 THEN Sorted(items)
  ELSE SortFromFirst(items, sorting, compare(items[2], items[1], sorting))

(***************************************************************************)
(* DummyDataSource.applyPagination                                         *)
(***************************************************************************)
\* ToIntegerOrInfinity of a slice bound, then clamped into 0..len
SliceBound(k, len) ==
  LET rel == IF IsNum(k) THEN k ELSE 0
  IN IF rel < 0 THEN Max(len + rel, 0) ELSE Min(rel, len)

\* a variant of slice that includes the element at end
slice_inclusiveEnd(items, start, end) ==
  SubSeq(items, SliceBound(start, Len(items)) + 1, SliceBound(JsAdd(end, 1), Len(items)))

\* Array.prototype.slice(start, end)
slice(items, start, end) ==
  SubSeq(items, SliceBound(start, Len(items)) + 1, SliceBound(end, Len(items)))

\* the start offset a cursor decodes to: 0 when atob throws
DecodeCursor(s) == IF AtobThrows(s) THEN 0 ELSE parseInt(atob(s))

\* a variant of EncodeCursor that encodes the offset after end
EncodeCursor_offByOne(end) == btoa(NumToString(JsAdd(end, 1)))

\* the cursor for an end offset
EncodeCursor(end) == btoa(NumToString(end))

NoPageInfo == [hasNextPage |-> FALSE, nextCursor |-> NoCursor, totalCount |-> Undefined]

\* a variant of applyPagination that reports totalCount in cursor-mode too
applyPagination_totalInCursorMode(items, pagination) ==
  LET pageSize == pagination.pageSize
      pageIndex == pagination.pageIndex
      cursor == pagination.cursor
      start == IF Truthy(cursor) THEN DecodeCursor(cursor.s)
               ELSE JsMul(IF pageIndex = Undefined THEN 0 ELSE pageIndex, pageSize)
      end == JsAdd(start, pageSize)
      hasMore == JsLess(end, Len(items))
  IN [items |-> slice(items, start, end),
      pageInfo |-> [hasNextPage |-> hasMore,
                    nextCursor |-> IF Truthy(cursor) /\ hasMore THEN Cursor(EncodeCursor(end))
                                   ELSE NoCursor,
                    totalCount |-> Len(items)]]

applyPagination(items, pagination) ==
  LET pageSize == pagination.pageSize
      pageIndex == pagination.pageIndex
      cursor == pagination.cursor
  IN IF Truthy(cursor)
     THEN LET start == DecodeCursor(cursor.s)
              end == JsAdd(start, pageSize)
              hasMore == JsLess(end, Len(items))
          IN [items |-> slice(items, start, end),
              pageInfo |-> [hasNextPage |-> hasMore,
                            nextCursor |-> IF hasMore THEN Cursor(EncodeCursor(end))
                                           ELSE NoCursor,
                            totalCount |-> Undefined]]
     ELSE LET start == JsMul(IF pageIndex = Undefined THEN 0 ELSE pageIndex, pageSize)
              end == JsAdd(start, pageSize)
          IN [items |-> slice(items, start, end),
              pageInfo |-> [hasNextPage |-> JsLess(end, Len(items)),
                            nextCursor |-> NoCursor,
                            totalCount |-> Len(items)]]

(***************************************************************************)
(* ApiResult, as the outcome of an async call: a promise fulfilled with    *)
(* {success: true, data} or {success: false, error}, or a rejected promise *)
(* (the exception crossed the boundary).  data is [items, pageInfo, count]:*)
(* a QueryResult fills items and pageInfo, getById fills items with the    *)
(* item found (none for null), getCount fills count.                       *)
(***************************************************************************)
NoData == [items |-> <<>>, pageInfo |-> NoPageInfo, count |-> Undefined]

Pending == [state |-> "pending", success |-> FALSE, data |-> NoData, error |-> ""]
Success(d) == [state |-> "fulfilled", success |-> TRUE, data |-> d, error |-> ""]
Failure(msg) == [state |-> "fulfilled", success |-> FALSE, data |-> NoData, error |-> msg]
Rejected(msg) == [state |-> "rejected", success |-> FALSE, data |-> NoData, error |-> msg]

\* the stages of query's try block; each takes the stage before it as
\* [items, error], error being the message of the exception raised so far
Stage(items, error) == [items |-> items, error |-> error]

\* filtered = this.applyFilters([...this.data], query.filters)
FilterStage(items, spec) ==
  IF applyFiltersThrows(items, spec.filters, "filters" \in spec.absent)
  THEN Stage(<<>>, "TypeError: filter")
  ELSE Stage(applyFilters(items, spec.filters), "")

\* the outcome of the sort, as a stage
SortOutcome(sorted) ==
  IF sorted.thrown THEN Stage(<<>>, "TypeError: sort") ELSE Stage(sorted.items, "")

\* if (query.sorting && query.sorting.length > 0) filtered = this.applySorting(...)
SortStage(filtered, spec) ==
  IF filtered.error # "" \/ "sorting" \in spec.absent \/ Len(spec.sorting) = 0 THEN filtered
  ELSE SortOutcome(applySorting(filtered.items, spec.sorting))

\* the QueryResult as the data of an ApiResult
QueryData(result) == [items |-> result.items, pageInfo |-> result.pageInfo, count |-> Undefined]

\* a variant of PaginationStage that reports an empty sequence as a failure
PaginationStage_failOnEmpty(sorted, spec) ==
  IF sorted.error # "" THEN Failure(sorted.error)
  ELSE IF "pagination" \in spec.absent THEN Failure("TypeError: pagination")
  ELSE IF sorted.items = <<>> THEN Failure("No results")
  ELSE Success(QueryData(applyPagination(sorted.items, spec.pagination)))

\* result = this.applyPagination(filtered, query.pagination); the catch
\* block turns an exception into a failure
PaginationStage(sorted, spec) ==
  IF sorted.error # "" THEN Failure(sorted.error)
  ELSE IF "pagination" \in spec.absent THEN Failure("TypeError: pagination")
  ELSE Success(QueryData(applyPagination(sorted.items, spec.pagination)))

\* DummyDataSource.query
query(items, spec) == PaginationStage(SortStage(FilterStage(items, spec), spec), spec)

\* a variant of getById that reports a missing id as a failure
getById_notFoundFails(items, id) ==
  LET found == SelectSeq(items, LAMBDA item : StrictEquals(item.id, Str(id)))
  IN IF found = <<>> THEN Failure("Not found")
     ELSE Success([items |-> <<Head(found)>>, pageInfo |-> NoPageInfo, count |-> Undefined])

\* DummyDataSource.getById
getById(items, id) ==
  LET found == SelectSeq(items, LAMBDA item : StrictEquals(item.id, Str(id)))
  IN Success([items |-> IF found = <<>> THEN <<>> ELSE <<Head(found)>>,
              pageInfo |-> NoPageInfo, count |-> Undefined])

\* DummyDataSource.getCount; absent: the call passed no filters
getCount(items, filters, absent) ==
  IF absent \/ Len(filters) = 0
    THEN Success([items |-> <<>>, pageInfo |-> NoPageInfo, count |-> Len(items)])
  ELSE IF applyFiltersThrows(items, filters, FALSE) THEN Rejected("TypeError: filter")
  ELSE Success([items |-> <<>>, pageInfo |-> NoPageInfo,
                count |-> Len(applyFilters(items, filters))])

(***************************************************************************)
(* QuerySpecSchema.parse (zod): the schema-validation step.                *)
(***************************************************************************)
DefaultPageSize == 20
MaxPageSize == 100

\* FilterConditionSchema: field min(1), op in the enumeration, value unknown
FilterConditionValid(f) == f.field # "" /\ f.op \in FilterOperators

\* SortSpecSchema: field min(1), direction in the enumeration
SortSpecValid(x) == x.field # "" /\ x.direction \in SortDirections

\* PaginationSpecSchema: pageSize int, positive, at most 100 (default 20);
\* pageIndex an optional non-negative int; cursor an optional string
PaginationValid(p) ==
  /\ p.pageSize = Undefined \/ (IsNum(p.pageSize) /\ p.pageSize > 0 /\ p.pageSize <= MaxPageSize)
  /\ p.pageIndex = Undefined \/ (IsNum(p.pageIndex) /\ p.pageIndex >= 0)

\* QuerySpecSchema accepts the raw spec
SchemaAccepts(raw) ==
  /\ "pagination" \notin raw.absent
  /\ PaginationValid(raw.pagination)
  /\ "filters" \in raw.absent
       \/ \A i \in 1..Len(raw.filters) : FilterConditionValid(raw.filters[i])
  /\ "sorting" \in raw.absent
       \/ \A i \in 1..Len(raw.sorting) : SortSpecValid(raw.sorting[i])

\* the parsed value: the defaults filled in
SchemaOutput(raw) ==
  [filters |-> IF "filters" \in raw.absent THEN <<>> ELSE raw.filters,
   sorting |-> IF "sorting" \in raw.absent THEN <<>> ELSE raw.sorting,
   pagination |-> [raw.pagination EXCEPT
                     !.pageSize = IF @ = Undefined THEN DefaultPageSize ELSE @],
   absent |-> {}]

\* what the spec calls a valid QuerySpec: a value the schema accepts that
\* needs no default
ValidQuerySpec(spec) ==
  SchemaAccepts(spec) /\ spec.absent = {} /\ spec.pagination.pageSize # Undefined

(***************************************************************************)
(* Services (createCollectionService, users.service) and the SolidStart    *)
(* query() endpoints.  A call is [op, spec, id].                           *)
(***************************************************************************)
EngineOps == {"DummyDataSource.query", "DummyDataSource.getById", "DummyDataSource.getCount"}
ServiceOps == {"service.query", "service.getById", "service.getCount"}
ApiOps == {"queryUsersQuery", "queryLocationsQuery"}
\* the optional operations of a service created over a DataSource that
\* implements query only (getById? and getCount? are optional)
QueryOnlyOps == {"queryOnlyService.getById", "queryOnlyService.getCount"}

\* createCollectionService(dataSource).query / queryUsers: queried is what
\* dataSource.query(spec) resolved to
serviceQuery(queried) == queried

\* variants of the two optional operations that call the method without
\* looking whether the DataSource has it
serviceGetById_unguarded(implemented, found) ==
  IF ~implemented THEN Rejected("TypeError: dataSource.getById is not a function") ELSE found

\* createCollectionService(dataSource).getById / getUserById: implemented
\* is whether the DataSource has getById, found is what dataSource.getById(id)
\* resolved to
serviceGetById(implemented, found) ==
  IF ~implemented THEN Failure("getById not supported") ELSE found

\* createCollectionService(dataSource).getCount / getUserCount
serviceGetCount(implemented, counted) ==
  IF ~implemented THEN Failure("getCount not supported") ELSE counted

\* the endpoint's tail: a failure is thrown, a success returns result.data
Unwrap(result) ==
  IF result.state = "fulfilled" /\ ~result.success THEN Rejected(result.error) ELSE result

\* queryUsersQuery: QuerySpecSchema.parse(spec), then queryUsers(validatedSpec),
\* which resolved to queried
queryUsersQuery(raw, queried) ==
  IF ~SchemaAccepts(raw) THEN Rejected("ZodError") ELSE Unwrap(serviceQuery(queried))

\* queryLocationsQuery: queryLocations(spec), which resolved to queried
queryLocationsQuery(raw, queried) == Unwrap(serviceQuery(queried))

\* the spec DataSource.query receives on an endpoint: [called, spec]
NotCalled(raw) == [called |-> FALSE, spec |-> raw]
CalledWith(spec) == [called |-> TRUE, spec |-> spec]

UsersEngineCall(raw) ==
  IF SchemaAccepts(raw) THEN CalledWith(SchemaOutput(raw)) ELSE NotCalled(raw)

LocationsEngineCall(raw) == CalledWith(raw)

\* the spec DataSource.query is invoked with during a call
EngineCallOf(c) ==
  CASE c.op \in {"DummyDataSource.query", "service.query"} -> CalledWith(c.spec)
    [] c.op = "queryUsersQuery" -> UsersEngineCall(c.spec)
    [] c.op = "queryLocationsQuery" -> LocationsEngineCall(c.spec)
    [] OTHER -> NotCalled(c.spec)

\* the outcome of call c, given what the DummyDataSource's three methods
\* resolve to for it
Respond(c, queried, found, counted) ==
  CASE c.op = "DummyDataSource.query" -> queried
    [] c.op = "DummyDataSource.getById" -> found
    [] c.op = "DummyDataSource.getCount" -> counted
    [] c.op = "service.query" -> serviceQuery(queried)
    [] c.op = "service.getById" -> serviceGetById(TRUE, found)
    [] c.op = "service.getCount" -> serviceGetCount(TRUE, counted)
    [] c.op = "queryOnlyService.getById" -> serviceGetById(FALSE, found)
    [] c.op = "queryOnlyService.getCount" -> serviceGetCount(FALSE, counted)
    [] c.op = "queryUsersQuery" -> queryUsersQuery(c.spec, queried)
    [] c.op = "queryLocationsQuery" -> queryLocationsQuery(c.spec, queried)

Perform(items, c) ==
  Respond(c, query(items, EngineCallOf(c).spec), getById(items, c.id),
          getCount(items, c.spec.filters, "filters" \in c.spec.absent))

\* this.data after a call: query and getCount work on a copy ([...this.data]),
\* getById only reads
DataAfter_sortInPlace(items, c) ==
  LET e == EngineCallOf(c)
  IN IF e.called /\ "sorting" \notin e.spec.absent /\ Len(e.spec.sorting) > 0
        /\ ~applySorting(items, e.spec.sorting).thrown
     THEN applySorting(items, e.spec.sorting).items
     ELSE items

DataAfter(items, c) == items

\* the QuerySpec object the caller passed, after a call: query reads
\* query.filters, query.sorting and query.pagination and writes none of them
SpecAfter_defaultsWritten(c) ==
  IF c.op \in {"DummyDataSource.query", "service.query"}
  THEN [c.spec EXCEPT !.pagination.pageIndex = IF @ = Undefined THEN 0 ELSE @]
  ELSE c.spec

SpecAfter(c) == c.spec

(***************************************************************************)
(* The inputs of the model.                                                *)
(***************************************************************************)
\* the longest backing collection
MaxItems == 3

Item(id, name, age) == [id |-> Str(id), name |-> Str(name), age |-> age]

\* a: Al 3   b: al 12   c: Bo 3   d: Al, age undefined   e: Cy, age a Symbol
ItemPool ==
  << Item(<<97>>, <<65, 108>>, Num(3)),
     Item(<<98>>, <<97, 108>>, Num(12)),
     Item(<<99>>, <<66, 111>>, Num(3)),
     Item(<<100>>, <<65, 108>>, Undef),
     Item(<<101>>, <<67, 121>>, Sym) >>

\* the backing collections: up to MaxItems items of the pool, each at most
\* once (ids are unique), in any order
Collections ==
  UNION { { [i \in 1..n |-> ItemPool[f[i]]] :
              f \in { g \in [1..n -> 1..Len(ItemPool)] :
                        \A i, j \in 1..n : i # j => g[i] # g[j] } } :
          n \in 0..MaxItems }

\* the ids asked of getById: the pool's and one that no item has
Ids == { <<97>>, <<98>>, <<101>>, <<122>> }

Cond(field, op, value) == [field |-> field, op |-> op, value |-> value]

\* one condition per operator, and the odd cases: a missing field, a value
\* of another type, a value whose comparison throws
Conditions ==
  << Cond("age", "eq", Num(3)),
     Cond("name", "neq", Str(<<65, 108>>)),
     Cond("name", "contains", Str(<<65, 76>>)),
     Cond("name", "startsWith", Str(<<97>>)),
     Cond("name", "endsWith", Str(<<79>>)),
     Cond("age", "gt", Num(3)),
     Cond("age", "lt", Num(12)),
     Cond("age", "gte", Num(3)),
     Cond("age", "lte", Num(3)),
     Cond("age", "in", Arr(<<Num(12), Undef>>)),
     Cond("age", "in", Num(3)),
     Cond("age", "contains", Num(1)),
     Cond("zip", "contains", Str(<<68, 69, 70>>)),
     Cond("age", "lt", Str(<<49, 48>>)),
     Cond("name", "gte", Str(<<66>>)),
     Cond("age", "eq", Str(<<51>>)),
     Cond("name", "lte", Sym) >>

\* the filter lists: none, each condition alone, and some conjunctions
FilterLists ==
  { <<>> } \cup { <<Conditions[i]>> : i \in 1..Len(Conditions) }
  \cup { <<Conditions[1], Conditions[3]>>, <<Conditions[3], Conditions[6]>>,
         <<Conditions[2], Conditions[17]>>, <<Conditions[17], Conditions[2]>>,
         <<Conditions[8], Conditions[4]>> }

SortBy(field, direction) == [field |-> field, direction |-> direction]

SortLists ==
  { <<>>, <<SortBy("age", "asc")>>, <<SortBy("age", "desc")>>, <<SortBy("name", "asc")>>,
    <<SortBy("name", "desc"), SortBy("age", "asc")>>,
    <<SortBy("age", "asc"), SortBy("name", "desc")>>,
    <<SortBy("zip", "asc")>>, <<SortBy("id", "desc")>> }

PageSizes == {1, 2, MaxPageSize}
PageIndexes == {Undefined, 0, 1, 2}

\* cursor strings: the encodings of small offsets (negative ones too), a
\* string atob rejects ("!"), the base64 of a string that is no number
\* ("YWI=", of "ab"), and the encodings of 10^20 and -10^20
CursorStrings ==
  { EncodeCursor(n) : n \in -2..MaxItems } \cup { <<33>>, <<89, 87, 73, 61>> }
  \cup { EncodeCursor(Huge), EncodeCursor(-Huge) }

Page(pageSize, pageIndex, cursor) ==
  [pageSize |-> pageSize, pageIndex |-> pageIndex, cursor |-> cursor]

\* offset-mode (no cursor, or the empty string) and cursor-mode paginations
Paginations ==
  { Page(ps, ix, NoCursor) : ps \in PageSizes, ix \in PageIndexes }
  \cup { Page(ps, ix, Cursor(<<>>)) : ps \in PageSizes, ix \in {Undefined, 1} }
  \cup { Page(ps, ix, Cursor(c)) : ps \in PageSizes, ix \in {Undefined, 1}, c \in CursorStrings }

Spec3(filters, sorting, pagination) ==
  [filters |-> filters, sorting |-> sorting, pagination |-> pagination, absent |-> {}]

\* the QuerySpecs typed callers pass: every filter list, every sort list and
\* every pagination, each against a few values of the other two parts
QuerySpecs ==
  { Spec3(f, <<>>, p) :
      f \in FilterLists, p \in {Page(MaxPageSize, Undefined, NoCursor), Page(2, 0, NoCursor)} }
  \cup { Spec3(f, x, p) :
      f \in {<<>>, <<Conditions[3]>>}, x \in SortLists,
      p \in {Page(MaxPageSize, Undefined, NoCursor), Page(2, 1, NoCursor),
             Page(1, Undefined, Cursor(EncodeCursor(1)))} }
  \cup { Spec3(f, x, p) :
      f \in {<<>>, <<Conditions[8]>>}, x \in {<<>>, <<SortBy("age", "desc")>>},
      p \in Paginations }

\* the filters getCount is called with: absent, or a filter list
CountSpecs ==
  { [Spec3(f, <<>>, Page(DefaultPageSize, Undefined, NoCursor)) EXCEPT !.absent = a] :
      f \in FilterLists, a \in {{}} }
  \cup { [Spec3(<<>>, <<>>, Page(DefaultPageSize, Undefined, NoCursor))
            EXCEPT !.absent = {"filters"}] }

\* the raw specs an endpoint receives: valid ones, ones that need a default,
\* and ones the schema rejects
RawSpecs ==
  LET base == Spec3(<<Conditions[1]>>, <<SortBy("name", "asc")>>, Page(2, 0, NoCursor))
  IN { base,
       Spec3(<<>>, <<>>, Page(1, 1, NoCursor)),
       Spec3(<<Conditions[17]>>, <<>>, Page(2, 0, NoCursor)),
       Spec3(<<>>, <<SortBy("age", "asc")>>, Page(1, Undefined, Cursor(EncodeCursor(1)))),
       [base EXCEPT !.absent = {"filters", "sorting"}],
       [base EXCEPT !.pagination.pageSize = Undefined],
       [base EXCEPT !.absent = {"pagination"}],
       [base EXCEPT !.pagination.pageSize = 0],
       [base EXCEPT !.pagination.pageSize = MaxPageSize + 1],
       [base EXCEPT !.pagination.pageSize = NaN],
       [base EXCEPT !.pagination.pageIndex = -1],
       [base EXCEPT !.filters = <<Cond("", "eq", Num(3))>>],
       [base EXCEPT !.filters = <<Cond("age", "like", Num(3))>>],
       [base EXCEPT !.sorting = <<SortBy("", "asc")>>],
       [base EXCEPT !.sorting = <<SortBy("age", "up")>>] }

\* the specs a caller outside the type checker passes: a condition whose
\* op is none of the ten, alone and next to conditions with a known op
UnknownOps == << Cond("age", "like", Num(3)), Cond("name", "regex", Sym) >>

UntypedSpecs ==
  { Spec3(f, x, p) :
      f \in { <<UnknownOps[1]>>, <<UnknownOps[2]>>,
              <<UnknownOps[1], Conditions[6]>>, <<Conditions[3], UnknownOps[2]>>,
              <<Conditions[2], UnknownOps[1], Conditions[8]>>,
              <<UnknownOps[1], Conditions[17]>>, <<UnknownOps[2], UnknownOps[1]>> },
      x \in { <<>>, <<SortBy("name", "desc")>> },
      p \in { Page(MaxPageSize, Undefined, NoCursor), Page(1, 1, NoCursor),
              Page(2, Undefined, Cursor(EncodeCursor(1))) } }

NoSpec == Spec3(<<>>, <<>>, Page(Undefined, Undefined, NoCursor))
NoCall == [op |-> "none", spec |-> NoSpec, id |-> <<>>]
Call(op, spec, id) == [op |-> op, spec |-> spec, id |-> id]

\* the exchange a call was derived from: [kind, call, outcome], and for a
\* walk through offset pages the items of the pages before (seen) and the
\* pageIndex the walk began at (from)
Prev(kind, c, o, seen, from) ==
  [kind |-> kind, call |-> c, outcome |-> o, seen |-> seen, from |-> from]

NoPrev == Prev("none", NoCall, Pending, <<>>, 0)

(***************************************************************************)
(* createCollectionQueryController: the querySpec signal and its mutators. *)
(* Each mutator calls setQuerySpec(prev => ({...prev, part})): the signal   *)
(* gets a new object, the object it held stays as it was.                  *)
(***************************************************************************)
\* a variant of setFilters that also goes back to the first page
setFilters_resetsPage(prev, filters) ==
  [prev EXCEPT !.filters = filters, !.pagination.pageIndex = 0]

\* ({ ...prev, filters })
setFilters(prev, filters) == [prev EXCEPT !.filters = filters]

\* ({ ...prev, sorting })
setSorting(prev, sorting) == [prev EXCEPT !.sorting = sorting]

\* ({ ...prev, pagination })
setPagination(prev, pagination) == [prev EXCEPT !.pagination = pagination]

(***************************************************************************)
(* useCollectionPagination: the pagination each helper passes to           *)
(* controller.setPagination, computed from the controller's QuerySpec.     *)
(***************************************************************************)
\* spec.pagination.pageIndex ?? 0
currentPageIndex(spec) ==
  IF spec.pagination.pageIndex = Undefined THEN 0 ELSE spec.pagination.pageIndex

\* { ...spec.pagination, pageIndex: currentPage + 1 }
goToNextPage(spec) ==
  [spec.pagination EXCEPT !.pageIndex = JsAdd(currentPageIndex(spec), 1)]

\* { ...spec.pagination, pageIndex: currentPage - 1 }, when currentPage > 0
goToPreviousPage(spec) ==
  [spec.pagination EXCEPT !.pageIndex = JsAdd(currentPageIndex(spec), -1)]

\* a variant of goToPage that takes pageIndex as it is given
goToPage_unclamped(spec, pageIndex) ==
  [spec.pagination EXCEPT !.pageIndex = pageIndex]

\* { ...spec.pagination, pageIndex: Math.max(0, pageIndex) }
goToPage(spec, pageIndex) ==
  [spec.pagination EXCEPT !.pageIndex = Max(0, pageIndex)]

\* { ...spec.pagination, pageSize, pageIndex: 0 }
setPageSize(spec, pageSize) ==
  [spec.pagination EXCEPT !.pageSize = pageSize, !.pageIndex = 0]

\* pageInfo()?.hasNextPage ?? false; resolved: controller.data() is defined
canGoNext(resolved, pageInfo) == resolved /\ pageInfo.hasNextPage

\* displayInfo: null (shown FALSE) when !totalCount, else {start, end, totalCount}
NoDisplayInfo == [shown |-> FALSE, start |-> Undefined, end |-> Undefined, totalCount |-> Undefined]

displayInfo(spec, resolved, pageInfo) ==
  LET totalCount == IF resolved THEN pageInfo.totalCount ELSE Undefined
      pageIndex == currentPageIndex(spec)
      pageSize == spec.pagination.pageSize
  IN IF totalCount = Undefined \/ totalCount = 0 \/ totalCount = NaN THEN NoDisplayInfo
     ELSE [shown |-> TRUE,
           start |-> JsAdd(JsMul(pageIndex, pageSize), 1),
           end |-> Min(JsMul(JsAdd(pageIndex, 1), pageSize), totalCount),
           totalCount |-> totalCount]

\* the object the signal held, after the mutator returned: the spread copied
\* its properties, nothing was assigned to it
HeldAfter(prev, next) == prev

\* the mutator last called and its argument
NoMutation == [name |-> "create", filters |-> <<>>, sorting |-> <<>>,
               pagination |-> Page(Undefined, Undefined, NoCursor)]
Mutation(name, filters, sorting, pagination) ==
  [name |-> name, filters |-> filters, sorting |-> sorting, pagination |-> pagination]

\* the selection actions: each gives the selectedIds signal a new Set
\* new Set([...prev, id])
selectItem(prev, id) == prev \cup {id}

\* next = new Set(prev); next.delete(id)
deselectItem(prev, id) == prev \ {id}

\* selectedIds().has(id) ? deselectItem(id) : selectItem(id)
toggleItem(prev, id) == IF id \in prev THEN deselectItem(prev, id) ELSE selectItem(prev, id)

\* new Set(items.map(getId)), getId being item => item.id
selectAll(items) == { items[i].id.v : i \in 1..Len(items) }

\* new Set()
clearSelection == {}

\* the header checkbox of CollectionTable:
\* selectedIds().size > 0 && selectedIds().size === (data()?.items.length ?? 0)
headerChecked(selectedIds, items) ==
  Cardinality(selectedIds) > 0 /\ Cardinality(selectedIds) = Len(items)

\* the controller: querySpec is the value of the signal, held the object the
\* signal held before the last mutator as it is now, before the value that
\* object had when the mutator was called, last the mutator and its
\* argument, selectedIds the value of the selection signal
NewController(initialQuery) ==
  [querySpec |-> initialQuery, held |-> initialQuery, before |-> initialQuery,
   last |-> NoMutation, selectedIds |-> {}]

\* the values a UI passes to the mutators, and the initialQuery of a controller
ControllerFilters == { <<>>, <<Conditions[1]>>, <<Conditions[3], Conditions[6]>> }
ControllerSortings ==
  { <<>>, <<SortBy("name", "asc")>>, <<SortBy("age", "desc"), SortBy("name", "asc")>> }
ControllerPaginations ==
  { Page(2, 0, NoCursor), Page(DefaultPageSize, Undefined, NoCursor), Page(1, 1, NoCursor),
    Page(1, Undefined, Cursor(EncodeCursor(1))) }

\* the page a UI jumps to (goToPage: any integer), the page sizes it offers,
\* and the last page the model turns to with goToNextPage
GoToPageIndexes == {-2, -1, 0, 1, 3}
ControllerPageSizes == {1, 2}
MaxPageIndex == 3
InitialQueries ==
  { Spec3(<<>>, <<>>, Page(DefaultPageSize, 0, NoCursor)),
    Spec3(<<Conditions[1]>>, <<SortBy("name", "asc")>>, Page(1, 1, NoCursor)) }

(***************************************************************************)
(* The state machine: one DummyDataSource behind its service and endpoint, *)
(* and a caller that invokes an operation, reads the settled result, and   *)
(* may refetch the same call or follow the cursor it was given.            *)
(***************************************************************************)
VARIABLES
  data,        \* DummyDataSource.data, the backing collection
  pc,          \* "idle": no call at hand; "pending": call runs; "settled": it has its outcome
  call,        \* the caller's last call
  outcome,     \* the outcome of call
  engineCall,  \* the spec DataSource.query was invoked with during call
  prev,        \* the exchange before call, when call was derived from it
  controller   \* a createCollectionQueryController: its querySpec signal

vars == <<data, pc, call, outcome, engineCall, prev, controller>>

Init ==
  /\ data \in Collections
  /\ pc = "idle"
  /\ call = NoCall
  /\ outcome = Pending
  /\ engineCall = NotCalled(NoSpec)
  /\ prev = NoPrev
  /\ controller = NewController(Spec3(<<>>, <<>>, Page(DefaultPageSize, 0, NoCursor)))

\* the caller invokes c: the promise is pending
Invoke(c, p) ==
  /\ call' = c
  /\ outcome' = Pending
  /\ engineCall' = NotCalled(NoSpec)
  /\ pc' = "pending"
  /\ prev' = p
  /\ UNCHANGED <<data, controller>>

\* the call runs to its end and the promise settles
Settle ==
  /\ pc = "pending"
  /\ outcome' = Perform(data, call)
  /\ engineCall' = EngineCallOf(call)
  /\ data' = DataAfter(data, call)
  /\ call' = [call EXCEPT !.spec = SpecAfter(call)]
  /\ pc' = "settled"
  /\ UNCHANGED <<prev, controller>>

DummyQuery ==
  /\ pc = "idle"
  /\ \E spec \in QuerySpecs : Invoke(Call("DummyDataSource.query", spec, <<>>), NoPrev)

\* a query whose filters hold an operator the switch does not know
DummyQueryUntyped ==
  /\ pc = "idle"
  /\ \E spec \in UntypedSpecs : Invoke(Call("DummyDataSource.query", spec, <<>>), NoPrev)

DummyGetById ==
  /\ pc = "idle"
  /\ \E id \in Ids : Invoke(Call("DummyDataSource.getById", NoSpec, id), NoPrev)

DummyGetCount ==
  /\ pc = "idle"
  /\ \E spec \in CountSpecs : Invoke(Call("DummyDataSource.getCount", spec, <<>>), NoPrev)

ServiceQuery ==
  /\ pc = "idle"
  /\ \E spec \in RawSpecs :
       /\ ValidQuerySpec(spec)
       /\ Invoke(Call("service.query", spec, <<>>), NoPrev)

ServiceGetById ==
  /\ pc = "idle"
  /\ \E id \in Ids : Invoke(Call("service.getById", NoSpec, id), NoPrev)

ServiceGetCount ==
  /\ pc = "idle"
  /\ \E spec \in CountSpecs : Invoke(Call("service.getCount", spec, <<>>), NoPrev)

\* the optional operations on a service whose DataSource lacks them
QueryOnlyGetById ==
  /\ pc = "idle"
  /\ \E id \in Ids : Invoke(Call("queryOnlyService.getById", NoSpec, id), NoPrev)

QueryOnlyGetCount ==
  /\ pc = "idle"
  /\ \E spec \in CountSpecs : Invoke(Call("queryOnlyService.getCount", spec, <<>>), NoPrev)

QueryUsersQuery ==
  /\ pc = "idle"
  /\ \E raw \in RawSpecs : Invoke(Call("queryUsersQuery", raw, <<>>), NoPrev)

QueryLocationsQuery ==
  /\ pc = "idle"
  /\ \E raw \in RawSpecs : Invoke(Call("queryLocationsQuery", raw, <<>>), NoPrev)

\* the caller issues the same call again (the controller's refresh)
Refetch ==
  /\ pc = "settled"
  /\ Invoke(call, Prev("repeat", call, outcome, <<>>, 0))

\* the caller asks for the next page with the nextCursor it was given
FollowCursor ==
  /\ pc = "settled"
  /\ call.op \in {"DummyDataSource.query", "service.query"}
  /\ outcome.success
  /\ outcome.data.pageInfo.nextCursor.present
  /\ Invoke([call EXCEPT !.spec.pagination.cursor = outcome.data.pageInfo.nextCursor],
            Prev("cursor", call, outcome, <<>>, 0))

\* the caller asks for the page after the one it was given, while there is
\* one (goToNextPage: pageIndex: currentPage + 1, and the refetch it causes)
NextPage ==
  /\ pc = "settled"
  /\ call.op \in {"DummyDataSource.query", "service.query"}
  /\ outcome.success
  /\ ~Truthy(call.spec.pagination.cursor)
  /\ outcome.data.pageInfo.hasNextPage
  /\ Invoke([call EXCEPT !.spec.pagination.pageIndex = (IF @ = Undefined THEN 0 ELSE @) + 1],
            Prev("page", call, outcome,
                 (IF prev.kind = "page" THEN prev.seen ELSE <<>>) \o outcome.data.items,
                 IF prev.kind = "page" THEN prev.from
                 ELSE IF call.spec.pagination.pageIndex = Undefined THEN 0
                 ELSE call.spec.pagination.pageIndex))

\* another caller's call is served in between; its result goes to that caller
OtherCaller ==
  /\ pc = "settled"
  /\ \E c \in { Call("DummyDataSource.query", spec, <<>>) :
                  spec \in { Spec3(<<>>, x, Page(2, 0, NoCursor)) : x \in SortLists } }
            \cup { Call("DummyDataSource.getById", NoSpec, <<98>>),
                   Call("DummyDataSource.getCount", Spec3(<<Conditions[1]>>, <<>>,
                          Page(DefaultPageSize, Undefined, NoCursor)), <<>>) } :
       data' = DataAfter(data, c)
  /\ UNCHANGED <<pc, call, outcome, engineCall, prev, controller>>

\* the caller is done with the result
Return ==
  /\ pc = "settled"
  /\ pc' = "idle"
  /\ call' = NoCall
  /\ outcome' = Pending
  /\ engineCall' = NotCalled(NoSpec)
  /\ prev' = NoPrev
  /\ UNCHANGED <<data, controller>>

Next ==
  \/ DummyQuery
  \/ DummyQueryUntyped
  \/ DummyGetById
  \/ DummyGetCount
  \/ ServiceQuery
  \/ ServiceGetById
  \/ ServiceGetCount
  \/ QueryOnlyGetById
  \/ QueryOnlyGetCount
  \/ QueryUsersQuery
  \/ QueryLocationsQuery
  \/ Settle
  \/ Refetch
  \/ FollowCursor
  \/ NextPage
  \/ OtherCaller
  \/ Return

Spec == Init /\ [][Next]_vars

(***************************************************************************)
(* The controller on its own: a UI calls the mutators of a controller      *)
(* created with some initialQuery.                                         *)
(***************************************************************************)
ControllerInit ==
  /\ data = <<>>
  /\ pc = "idle"
  /\ call = NoCall
  /\ outcome = Pending
  /\ engineCall = NotCalled(NoSpec)
  /\ prev = NoPrev
  /\ controller \in { NewController(q) : q \in InitialQueries }

\* createResource(querySpec, queryFn): a new value of the signal makes the
\* resource call queryFn, which is queryUsersQuery; pc = "idle" is a
\* controller looked at without its resource.  prev keeps the page shown
\* before a turn to the next page.
Fetch(spec, kind) ==
  IF pc = "idle" THEN UNCHANGED <<data, pc, call, outcome, engineCall, prev>>
  ELSE /\ call' = Call("queryUsersQuery", spec, <<>>)
       /\ outcome' = Pending
       /\ engineCall' = NotCalled(NoSpec)
       /\ pc' = "pending"
       /\ prev' = IF kind = "goToNextPage" THEN Prev(kind, call, outcome, <<>>, 0) ELSE NoPrev
       /\ UNCHANGED data

\* setQuerySpec(prev => next): the signal gets next
Mutate(next, mutation) ==
  /\ pc # "pending"
  /\ controller' = [controller EXCEPT !.querySpec = next,
                                      !.held = HeldAfter(controller.querySpec, next),
                                      !.before = controller.querySpec,
                                      !.last = mutation]
  /\ Fetch(next, mutation.name)

\* a helper returned without a call of setPagination: the signal keeps its object
NotMutated(mutation) ==
  /\ pc # "pending"
  /\ controller' = [controller EXCEPT !.held = controller.querySpec,
                                      !.before = controller.querySpec,
                                      !.last = mutation]
  /\ UNCHANGED <<data, pc, call, outcome, engineCall, prev>>

SetFilters ==
  \E filters \in ControllerFilters :
    Mutate(setFilters(controller.querySpec, filters),
           Mutation("setFilters", filters, <<>>, NoMutation.pagination))

SetSorting ==
  \E sorting \in ControllerSortings :
    Mutate(setSorting(controller.querySpec, sorting),
           Mutation("setSorting", <<>>, sorting, NoMutation.pagination))

SetPagination ==
  \E pagination \in ControllerPaginations :
    Mutate(setPagination(controller.querySpec, pagination),
           Mutation("setPagination", <<>>, <<>>, pagination))

\* useCollectionPagination's helpers: each reads controller.querySpec() and
\* calls controller.setPagination
GoToNextPage ==
  /\ currentPageIndex(controller.querySpec) < MaxPageIndex
  /\ Mutate(setPagination(controller.querySpec, goToNextPage(controller.querySpec)),
            Mutation("goToNextPage", <<>>, <<>>, goToNextPage(controller.querySpec)))

GoToPreviousPage ==
  IF currentPageIndex(controller.querySpec) > 0
  THEN Mutate(setPagination(controller.querySpec, goToPreviousPage(controller.querySpec)),
              Mutation("goToPreviousPage", <<>>, <<>>, goToPreviousPage(controller.querySpec)))
  ELSE NotMutated(Mutation("goToPreviousPage", <<>>, <<>>, controller.querySpec.pagination))

GoToPage ==
  \E pageIndex \in GoToPageIndexes :
    Mutate(setPagination(controller.querySpec, goToPage(controller.querySpec, pageIndex)),
           Mutation("goToPage", <<>>, <<>>,
                    [controller.querySpec.pagination EXCEPT !.pageIndex = pageIndex]))

SetPageSize ==
  \E pageSize \in ControllerPageSizes :
    Mutate(setPagination(controller.querySpec, setPageSize(controller.querySpec, pageSize)),
           Mutation("setPageSize", <<>>, <<>>,
                    [controller.querySpec.pagination EXCEPT !.pageSize = pageSize]))

ControllerNext ==
  \/ SetFilters
  \/ SetSorting
  \/ SetPagination
  \/ GoToNextPage
  \/ GoToPreviousPage
  \/ GoToPage
  \/ SetPageSize

ControllerSpec == ControllerInit /\ [][ControllerNext]_vars

(***************************************************************************)
(* The controller with its resource behind a CollectionTable: the resource *)
(* fetches the initialQuery, and a user who sees the settled page changes  *)
(* filters, sorting and pagination and selects rows.                       *)
(***************************************************************************)
\* the collections behind the table: the first items of the pool
TableCollections == { SubSeq(ItemPool, 1, n) : n \in 0..MaxItems }

TableInit ==
  /\ data \in TableCollections
  /\ \E q \in InitialQueries :
       /\ controller = NewController(q)
       /\ call = Call("queryUsersQuery", q, <<>>)
  /\ pc = "pending"
  /\ outcome = Pending
  /\ engineCall = NotCalled(NoSpec)
  /\ prev = NoPrev

\* controller.data(): the value the resource resolved to, or undefined
ResourceResolved == pc = "settled" /\ outcome.state = "fulfilled" /\ outcome.success

\* data()?.items ?? []
ResourceItems == IF ResourceResolved THEN outcome.data.items ELSE <<>>

\* setSelectedIds(next)
Select(next) ==
  /\ pc = "settled"
  /\ controller' = [controller EXCEPT !.selectedIds = next]
  /\ UNCHANGED <<data, pc, call, outcome, engineCall, prev>>

\* the user ticks the rows shown, or the header checkbox
SelectItem ==
  \E i \in 1..Len(ResourceItems) :
    Select(selectItem(controller.selectedIds, ResourceItems[i].id.v))

DeselectItem ==
  \E i \in 1..Len(ResourceItems) :
    Select(deselectItem(controller.selectedIds, ResourceItems[i].id.v))

ToggleItem ==
  \E i \in 1..Len(ResourceItems) :
    Select(toggleItem(controller.selectedIds, ResourceItems[i].id.v))

SelectAll == Select(selectAll(ResourceItems))

ClearSelection == Select(clearSelection)

TableNext ==
  \/ Settle
  \/ SetFilters
  \/ SetSorting
  \/ SetPagination
  \/ GoToNextPage
  \/ GoToPreviousPage
  \/ GoToPage
  \/ SetPageSize
  \/ SelectItem
  \/ DeselectItem
  \/ ToggleItem
  \/ SelectAll
  \/ ClearSelection

TableSpec == TableInit /\ [][TableNext]_vars

(***************************************************************************)
(* The sort on its own: a DummyDataSource constructed with a longer        *)
(* collection is queried for all its items in each order of SortLists.     *)
(***************************************************************************)
\* the length of the collections that are sorted
MaxSortItems == 4

\* the collections: MaxSortItems items of the pool, each at most once, in
\* any order
SortCollections ==
  { [i \in 1..MaxSortItems |-> ItemPool[f[i]]] :
      f \in { g \in [1..MaxSortItems -> 1..Len(ItemPool)] :
                \A i, j \in 1..MaxSortItems : i # j => g[i] # g[j] } }

SortingInit ==
  /\ data \in SortCollections
  /\ pc = "idle"
  /\ call = NoCall
  /\ outcome = Pending
  /\ engineCall = NotCalled(NoSpec)
  /\ prev = NoPrev
  /\ controller = NewController(Spec3(<<>>, <<>>, Page(DefaultPageSize, 0, NoCursor)))

\* query({filters: [], sorting, pagination: {pageSize: 100}})
SortedQuery ==
  /\ pc = "idle"
  /\ \E sorting \in SortLists :
       Invoke(Call("DummyDataSource.query",
                   Spec3(<<>>, sorting, Page(MaxPageSize, Undefined, NoCursor)), <<>>),
              NoPrev)

SortingNext ==
  \/ SortedQuery
  \/ Settle
  \/ Return

SortingSpec == SortingInit /\ [][SortingNext]_vars

(***************************************************************************)
(* Properties.  They read a settled call: call, its outcome, and the       *)
(* collection it ran on.                                                   *)
(***************************************************************************)
\* a DummyDataSource.query on a valid QuerySpec has returned success
QuerySucceeded ==
  /\ pc = "settled"
  /\ call.op = "DummyDataSource.query"
  /\ ValidQuerySpec(call.spec)
  /\ outcome.state = "fulfilled"
  /\ outcome.success

\* the items and the pageInfo of the settled result
Items == outcome.data.items
PageInfo == outcome.data.pageInfo

\* an item satisfies a condition, and every condition of a list
Satisfies(item, filter) == ~ConditionThrows(item, filter) /\ ConditionHolds(item, filter)
SatisfiesAll(item, filters) == \A i \in 1..Len(filters) : Satisfies(item, filters[i])

\* the sub-sequence of items that satisfy every condition
Satisfying(items, filters) == SelectSeq(items, LAMBDA item : SatisfiesAll(item, filters))

\* a sequence in the order of a sorting (as it is when there is none)
OrderOf(items, sorting) ==
  IF sorting = <<>> THEN items ELSE applySorting(items, sorting).items

\* the filtered-and-sorted sequence a query on spec paginates
Paginated(items, spec) == OrderOf(Satisfying(items, spec.filters), spec.sorting)

\* a strictly follows b under the first SortSpec on which they do not tie
RECURSIVE StrictlyFollows(_, _, _)
StrictlyFollows(a, b, sorting) ==
  IF sorting = <<>> THEN FALSE
  ELSE LET aVal == Field(a, Head(sorting).field)
           bVal == Field(b, Head(sorting).field)
       IN IF LessThan(aVal, bVal) THEN Head(sorting).direction = "desc"
          ELSE IF LessThan(bVal, aVal) THEN Head(sorting).direction = "asc"
          ELSE StrictlyFollows(a, b, Tail(sorting))

\* C1: a successful query on a valid QuerySpec returns at most pageSize
\* items, in offset-mode and in cursor-mode, whatever the cursor string.
C1_PaginationBound ==
  QuerySucceeded => Len(Items) <= call.spec.pagination.pageSize

\* a full page was returned for a cursor that decodes to a negative offset
C1_Witness ==
  /\ QuerySucceeded
  /\ Truthy(call.spec.pagination.cursor)
  /\ DecodeCursor(call.spec.pagination.cursor.s) < 0
  /\ Len(data) = 3
  /\ Len(Items) = call.spec.pagination.pageSize

\* C2: filters are a logical AND: the sequence a successful query paginates
\* is exactly the sub-sequence of the collection whose items satisfy every
\* condition, so every returned item satisfies all of them and the
\* offset-mode totalCount counts every satisfying item.
C2_FiltersAreConjunction ==
  QuerySucceeded =>
    /\ Items = applyPagination(Paginated(data, call.spec), call.spec.pagination).items
    /\ \A i \in 1..Len(Items) : SatisfiesAll(Items[i], call.spec.filters)
    /\ ~Truthy(call.spec.pagination.cursor)
         => PageInfo.totalCount = Len(Satisfying(data, call.spec.filters))

\* two conditions, an item that satisfies only the first of them and is
\* left out, and an item that satisfies both and is returned
C2_Witness ==
  /\ QuerySucceeded
  /\ Len(call.spec.filters) = 2
  /\ Items # <<>>
  /\ Len(Items) < Len(data)
  /\ \E i \in 1..Len(data) :
       /\ Satisfies(data[i], call.spec.filters[1])
       /\ ~Satisfies(data[i], call.spec.filters[2])

\* C3: with a non-empty sorting, no item of a successful result strictly
\* follows the item after it under the first SortSpec on which the two do
\* not tie.
C3_AdjacentPairsInOrder ==
  (QuerySucceeded /\ call.spec.sorting # <<>>) =>
    \A i \in 1..(Len(Items) - 1) :
      ~StrictlyFollows(Items[i], Items[i + 1], call.spec.sorting)

\* three items came back reordered under two SortSpecs, the first two tied
\* on the first SortSpec and ordered by the second
C3_Witness ==
  /\ QuerySucceeded
  /\ Len(call.spec.sorting) = 2
  /\ Len(Items) = 3
  /\ Items # data
  /\ ~StrictlyFollows(Items[1], Items[2], <<call.spec.sorting[1]>>)
  /\ ~StrictlyFollows(Items[2], Items[1], <<call.spec.sorting[1]>>)
  /\ StrictlyFollows(Items[2], Items[1], call.spec.sorting)

\* C4: in offset-mode (cursor absent or empty) a successful result has
\* hasNextPage exactly when (pageIndex + 1) * pageSize < totalCount, an
\* absent pageIndex counting as 0.
C4_OffsetHasNextPage ==
  (QuerySucceeded /\ ~Truthy(call.spec.pagination.cursor)) =>
    LET pageIndex == IF call.spec.pagination.pageIndex = Undefined THEN 0
                     ELSE call.spec.pagination.pageIndex
    IN PageInfo.hasNextPage
         = ((pageIndex + 1) * call.spec.pagination.pageSize < PageInfo.totalCount)

\* the second page, asked for with an empty cursor string, has a next page
C4_Witness ==
  /\ QuerySucceeded
  /\ call.spec.pagination.cursor = Cursor(<<>>)
  /\ call.spec.pagination.pageIndex = 1
  /\ PageInfo.hasNextPage
  /\ Len(Items) = 1

\* C5: in cursor-mode a successful result has hasNextPage exactly when
\* nextCursor is present, and a present nextCursor decodes to the end
\* offset of the page, start + pageSize.
C5_CursorHasNextPage ==
  (QuerySucceeded /\ Truthy(call.spec.pagination.cursor)) =>
    /\ PageInfo.hasNextPage = PageInfo.nextCursor.present
    /\ PageInfo.nextCursor.present =>
         /\ ~AtobThrows(PageInfo.nextCursor.s)
         /\ parseInt(atob(PageInfo.nextCursor.s))
              = JsAdd(DecodeCursor(call.spec.pagination.cursor.s), call.spec.pagination.pageSize)

\* a page from offset 1 that has a next page and carries its cursor
C5_Witness ==
  /\ QuerySucceeded
  /\ Truthy(call.spec.pagination.cursor)
  /\ DecodeCursor(call.spec.pagination.cursor.s) = 1
  /\ PageInfo.hasNextPage
  /\ PageInfo.nextCursor.present
  /\ Len(Items) = 1

\* C6: cursor round-trip: when a query returned a page and a nextCursor, the
\* follow-up query with the same filters, sorting and pageSize and that
\* cursor, on the unmodified collection, returns exactly the positions
\* after the page (pageSize of them, clipped to the end of the sequence):
\* no gap and no overlap.
C6_CursorRoundTrip ==
  (/\ pc = "settled"
   /\ prev.kind = "cursor"
   /\ call.op = "DummyDataSource.query"
   /\ ValidQuerySpec(call.spec)
   /\ outcome.success
   /\ prev.outcome.data.items # <<>>) =>
    LET seq == Paginated(data, call.spec)
        page == prev.outcome.data.items
        n == Len(page)
    IN \A p \in 1..(Len(seq) - n + 1) :
         SubSeq(seq, p, p + n - 1) = page =>
           Items = SubSeq(seq, p + n, Min(p + n - 1 + call.spec.pagination.pageSize, Len(seq)))

\* C7: a first query with pagination {pageSize, cursor: undefined} returns
\* the items of offset pageIndex 0 and, when more items remain, a
\* nextCursor with which a second query can go on.
C7_CursorTraversalStarts ==
  (/\ QuerySucceeded
   /\ ~call.spec.pagination.cursor.present
   /\ call.spec.pagination.pageIndex = Undefined) =>
    /\ Items = slice(Paginated(data, call.spec), 0, call.spec.pagination.pageSize)
    /\ PageInfo.hasNextPage => PageInfo.nextCursor.present

C9_NeverRejects ==
  (pc = "settled" /\ call.op \in EngineOps \cup ServiceOps) =>
    /\ outcome.state = "fulfilled"
    /\ outcome.success \/ outcome.error # ""

\* C10: on both API entry paths the engine is only ever called with a spec
\* that passed validation; a raw spec the schema rejects never reaches
\* DataSource.query.
C10_EngineSeesValidatedSpecs ==
  (pc = "settled" /\ call.op \in ApiOps) =>
    /\ ~SchemaAccepts(call.spec) => (~engineCall.called /\ outcome.state = "rejected")
    /\ engineCall.called => ValidQuerySpec(engineCall.spec)

\* C11: query never mutates the QuerySpec it is given: after a call of
\* query, successful or failed, the filters, the sorting and the pagination
\* of the spec the caller passed equal the values the engine was called with.
C11_QuerySpecNotMutated ==
  (pc = "settled" /\ call.op \in {"DummyDataSource.query", "service.query"}) =>
    /\ engineCall.called
    /\ call.spec.filters = engineCall.spec.filters
    /\ call.spec.sorting = engineCall.spec.sorting
    /\ call.spec.pagination = engineCall.spec.pagination

\* a query with filters, a sorting and no pageIndex has settled
C11_Witness ==
  /\ pc = "settled"
  /\ call.op = "DummyDataSource.query"
  /\ call.spec.filters # <<>>
  /\ call.spec.sorting # <<>>
  /\ call.spec.pagination.pageIndex = Undefined
  /\ outcome.success
  /\ Len(Items) >= 2

\* C12: query, getById and getCount leave the backing collection as it is:
\* no step changes data, so after any sequence of calls it has the items of
\* its construction in the same order.
C12_CollectionUnchanged == [][data' = data]_vars

\* a query whose sorting reordered the items of the collection has settled
\* a second time
C12_Witness ==
  /\ pc = "settled"
  /\ prev.kind = "repeat"
  /\ call.op = "DummyDataSource.query"
  /\ call.spec.sorting # <<>>
  /\ call.spec.filters = <<>>
  /\ outcome.success
  /\ Len(Items) = 3
  /\ Items # data

\* C13: the pagination mode follows from the cursor alone: with the cursor
\* absent or the empty string the page starts at pageIndex * pageSize
\* (pageIndex 0 when absent) and the result is an offset-mode one; only a
\* present, non-empty cursor gives the page that starts at the decoded offset,
\* whatever pageIndex is.
C13_ModeFromCursorAlone ==
  QuerySucceeded =>
    LET p == call.spec.pagination
        seq == Paginated(data, call.spec)
        first == (IF p.pageIndex = Undefined THEN 0 ELSE p.pageIndex) * p.pageSize
        decoded == DecodeCursor(p.cursor.s)
    IN IF ~p.cursor.present \/ p.cursor.s = <<>>
       THEN /\ Items = SubSeq(seq, first + 1, Min(first + p.pageSize, Len(seq)))
            /\ PageInfo.totalCount = Len(seq)
       ELSE /\ Items = slice(seq, decoded, JsAdd(decoded, p.pageSize))
            /\ PageInfo.totalCount = Undefined

\* a cursor for offset 0 with pageIndex 1 returned the first item
C13_Witness ==
  /\ QuerySucceeded
  /\ call.spec.pagination.cursor.present
  /\ DecodeCursor(call.spec.pagination.cursor.s) = 0
  /\ ~AtobThrows(call.spec.pagination.cursor.s)
  /\ call.spec.pagination.pageIndex = 1
  /\ call.spec.pagination.pageSize = 1
  /\ Len(data) = 3
  /\ Items = <<data[1]>>

\* C14: the pageInfo fields are mode-exclusive: an offset-mode result
\* carries totalCount, the length of the whole filtered sequence, and no
\* nextCursor; a cursor-mode result carries no totalCount.
C14_PageInfoModeExclusive ==
  QuerySucceeded =>
    IF Truthy(call.spec.pagination.cursor)
    THEN PageInfo.totalCount = Undefined
    ELSE /\ PageInfo.totalCount = Len(Satisfying(data, call.spec.filters))
         /\ ~PageInfo.nextCursor.present

\* a cursor-mode result over a filtered sequence with a nextCursor
C14_Witness ==
  /\ QuerySucceeded
  /\ Truthy(call.spec.pagination.cursor)
  /\ call.spec.filters # <<>>
  /\ Len(Satisfying(data, call.spec.filters)) < Len(data)
  /\ PageInfo.nextCursor.present
  /\ PageInfo.totalCount = Undefined

\* C15: offset pages partition the filtered-and-sorted sequence: the items
\* of pageIndex 0, 1, 2, ... up to the first page with hasNextPage = false,
\* for the same filters, sorting and pageSize on the unmodified collection,
\* are together exactly that sequence, and their number is totalCount.
C15_OffsetPagesPartition ==
  (/\ QuerySucceeded
   /\ ~Truthy(call.spec.pagination.cursor)
   /\ ~PageInfo.hasNextPage
   /\ IF prev.kind = "page" THEN prev.from = 0
      ELSE call.spec.pagination.pageIndex \in {Undefined, 0}) =>
    LET pages == (IF prev.kind = "page" THEN prev.seen ELSE <<>>) \o Items
    IN /\ pages = Paginated(data, call.spec)
       /\ Len(pages) = PageInfo.totalCount

\* the third and last page of a sorted walk that began at pageIndex 0
C15_Witness ==
  /\ QuerySucceeded
  /\ prev.kind = "page"
  /\ prev.from = 0
  /\ call.spec.pagination.pageIndex = 2
  /\ call.spec.sorting # <<>>
  /\ Len(prev.seen) = 2
  /\ Len(Items) = 1
  /\ ~PageInfo.hasNextPage

\* C16: a query of an empty backing collection with a valid spec in
\* offset-mode succeeds with no items, hasNextPage = false and totalCount = 0.
C16_EmptyCollection ==
  (/\ pc = "settled"
   /\ call.op = "DummyDataSource.query"
   /\ ValidQuerySpec(call.spec)
   /\ ~Truthy(call.spec.pagination.cursor)
   /\ data = <<>>) =>
    /\ outcome.state = "fulfilled"
    /\ outcome.success
    /\ Items = <<>>
    /\ ~PageInfo.hasNextPage
    /\ PageInfo.totalCount = 0

\* the empty collection was queried with a sorting and a filter whose
\* evaluation would throw on an item
C16_Witness ==
  /\ pc = "settled"
  /\ call.op = "DummyDataSource.query"
  /\ data = <<>>
  /\ ~call.spec.pagination.cursor.present
  /\ \/ call.spec.sorting # <<>>
     \/ \E i \in 1..Len(call.spec.filters) : call.spec.filters[i].value = Sym
  /\ outcome.success
  /\ PageInfo.totalCount = 0

\* C17: the service's getById and getCount on a DataSource that lacks the
\* operation return the failure "getById not supported" / "getCount not
\* supported" and do not throw; on a DataSource that has the operation the
\* service returns exactly what the DataSource returned.
C17_OptionalOperations ==
  pc = "settled" =>
    /\ call.op = "queryOnlyService.getById" => outcome = Failure("getById not supported")
    /\ call.op = "queryOnlyService.getCount" => outcome = Failure("getCount not supported")
    /\ call.op = "service.getById" => outcome = getById(data, call.id)
    /\ call.op = "service.getCount"
         => outcome = getCount(data, call.spec.filters, "filters" \in call.spec.absent)

\* getById was asked of a service whose DataSource lacks it, for an id the
\* collection holds
C17_Witness ==
  /\ pc = "settled"
  /\ call.op = "queryOnlyService.getById"
  /\ \E i \in 1..Len(data) : data[i].id = Str(call.id)
  /\ outcome.state = "fulfilled"
  /\ ~outcome.success
  /\ outcome.error = "getById not supported"

\* C18: getById(id) always returns a success: the item whose id strictly
\* equals id when the collection holds one, null (no item) when it holds
\* none; a missing id is no failure.
C18_GetByIdAlwaysSucceeds ==
  (pc = "settled" /\ call.op = "DummyDataSource.getById") =>
    LET matches == { i \in 1..Len(data) : StrictEquals(data[i].id, Str(call.id)) }
    IN /\ outcome.state = "fulfilled"
       /\ outcome.success
       /\ IF matches = {} THEN Items = <<>>
          ELSE \E i \in matches : Items = <<data[i]>> /\ \A j \in matches : i <= j

\* an id that no item of a full collection has was looked up
C18_Witness ==
  /\ pc = "settled"
  /\ call.op = "DummyDataSource.getById"
  /\ Len(data) = 3
  /\ \A i \in 1..Len(data) : data[i].id # Str(call.id)
  /\ outcome.success
  /\ Items = <<>>

\* C19: getCount(filters) returns, as a success, the number of items of the
\* collection that satisfy every filter (the size of the collection when
\* filters is absent or empty), and that number is the totalCount an
\* offset-mode query with the same filters reports.
C19_GetCountMatchesTotalCount ==
  (pc = "settled" /\ call.op = "DummyDataSource.getCount") =>
    LET filters == IF "filters" \in call.spec.absent THEN <<>> ELSE call.spec.filters
        queried == query(data, Spec3(filters, <<>>, Page(DefaultPageSize, Undefined, NoCursor)))
    IN /\ outcome.state = "fulfilled"
       /\ outcome.success
       /\ outcome.data.count = Len(Satisfying(data, filters))
       /\ queried.success
       /\ outcome.data.count = queried.data.pageInfo.totalCount

\* C20: each controller mutator replaces the QuerySpec by a new value that
\* differs only in the part it sets: after setFilters(f) the filters are f
\* and sorting and pagination are the previous ones, setSorting changes only
\* sorting, setPagination only pagination; the spec value held before is
\* not modified.
C20_MutatorsReplaceOnePart ==
  LET now == controller.querySpec
      was == controller.before
      last == controller.last
  IN /\ last.name = "setFilters" =>
          /\ now.filters = last.filters
          /\ now.sorting = was.sorting
          /\ now.pagination = was.pagination
     /\ last.name = "setSorting" =>
          /\ now.sorting = last.sorting
          /\ now.filters = was.filters
          /\ now.pagination = was.pagination
     /\ last.name = "setPagination" =>
          /\ now.pagination = last.pagination
          /\ now.filters = was.filters
          /\ now.sorting = was.sorting
     /\ controller.held = was

\* setFilters gave new filters to a spec on page 1 with a sorting
C20_Witness ==
  /\ controller.last.name = "setFilters"
  /\ controller.querySpec.filters # controller.before.filters
  /\ controller.querySpec.filters # <<>>
  /\ controller.querySpec.sorting # <<>>
  /\ controller.querySpec.pagination.pageIndex = 1
  /\ controller.held = controller.before

\* a cursor-mode query whose cursor does not decode to an integer: atob
\* rejects the string, or the decoded text does not start with a number
UndecodableCursor(pagination) ==
  /\ Truthy(pagination.cursor)
  /\ \/ AtobThrows(pagination.cursor.s)
     \/ parseInt(atob(pagination.cursor.s)) = NaN

\* C21: in cursor-mode, when the cursor cannot be decoded to an integer
\* start offset (not valid base64, or valid base64 of a non-numeric
\* string), the engine starts at 0: the successful result holds the first
\* pageSize items of the filtered-and-sorted sequence.
C21_UndecodableCursorStartsAtZero ==
  (QuerySucceeded /\ UndecodableCursor(call.spec.pagination)) =>
    Items = slice(Paginated(data, call.spec), 0, call.spec.pagination.pageSize)

\* a DummyDataSource.query on a valid QuerySpec whose filters and sorting
\* were evaluated without an exception: it has a filtered-and-sorted sequence
QueryPaginates ==
  /\ pc = "settled"
  /\ call.op = "DummyDataSource.query"
  /\ ValidQuerySpec(call.spec)
  /\ ~applyFiltersThrows(data, call.spec.filters, FALSE)
  /\ \/ call.spec.sorting = <<>>
     \/ ~applySorting(Satisfying(data, call.spec.filters), call.spec.sorting).thrown

\* the start offset of a pagination: decoded from the cursor in cursor-mode,
\* pageIndex x pageSize in offset-mode
StartOffset(pagination) ==
  IF Truthy(pagination.cursor) THEN DecodeCursor(pagination.cursor.s)
  ELSE JsMul(IF pagination.pageIndex = Undefined THEN 0 ELSE pagination.pageIndex,
             pagination.pageSize)

\* C22: a query whose start offset is at or beyond the end of the filtered
\* sequence (offset-mode with a large pageIndex, cursor-mode with a large
\* decoded offset) succeeds with no items and hasNextPage = false.
C22_PastTheEndIsEmpty ==
  (/\ QueryPaginates
   /\ IsNum(StartOffset(call.spec.pagination))
   /\ StartOffset(call.spec.pagination) >= Len(Paginated(data, call.spec))) =>
    /\ outcome.state = "fulfilled"
    /\ outcome.success
    /\ Items = <<>>
    /\ ~PageInfo.hasNextPage
    /\ ~PageInfo.nextCursor.present

\* page 2 of size 2 was asked of a filtered sequence of three items
C22_Witness ==
  /\ QueryPaginates
  /\ ~Truthy(call.spec.pagination.cursor)
  /\ call.spec.pagination.pageIndex = 2
  /\ call.spec.pagination.pageSize = 2
  /\ Len(Paginated(data, call.spec)) = 3
  /\ outcome.success
  /\ Items = <<>>

\* the place of an item in a sequence of items with unique ids
PositionOf(item, items) == CHOOSE i \in 1..Len(items) : items[i] = item

\* C23: sorting is stable: two items that tie on every SortSpec of
\* spec.sorting appear in the result in the same relative order as in the
\* backing collection; with an empty sorting every two items tie, so the
\* sequence keeps the backing collection's order.
C23_SortIsStable ==
  (/\ QuerySucceeded
   /\ call.spec.filters = <<>>
   /\ StartOffset(call.spec.pagination) = 0
   /\ call.spec.pagination.pageSize >= Len(data)) =>
    /\ Len(Items) = Len(data)
    /\ \A i, j \in 1..Len(Items) :
         (i < j /\ compare(Items[i], Items[j], call.spec.sorting) = 0) =>
           PositionOf(Items[i], data) < PositionOf(Items[j], data)

\* the conditions of a filter list whose op is one of the ten operators
KnownConditions(filters) == SelectSeq(filters, LAMBDA f : f.op \in FilterOperators)

\* C24: a FilterCondition whose op is not one of the ten known operators
\* filters nothing out: every item passes it, and the result of the query
\* equals the result of the same spec with that condition removed.
C24_UnknownOperatorPasses ==
  (/\ pc = "settled"
   /\ call.op = "DummyDataSource.query"
   /\ "filters" \notin call.spec.absent
   /\ KnownConditions(call.spec.filters) # call.spec.filters) =>
    /\ \A i \in 1..Len(data) : \A k \in 1..Len(call.spec.filters) :
         call.spec.filters[k].op \notin FilterOperators =>
           Satisfies(data[i], call.spec.filters[k])
    /\ outcome = query(data, [call.spec EXCEPT !.filters = KnownConditions(@)])

\* an unknown operator stood before a known one that dropped an item and
\* kept another
C24_Witness ==
  /\ pc = "settled"
  /\ call.op = "DummyDataSource.query"
  /\ Len(call.spec.filters) = 2
  /\ call.spec.filters[1].op \notin FilterOperators
  /\ call.spec.filters[2].op \in FilterOperators
  /\ outcome.success
  /\ Len(data) = 3
  /\ Len(Satisfying(data, call.spec.filters)) = 1
  /\ Len(Items) = 1

\* C25: in every successful query result, in either pagination mode and for
\* any cursor string, hasNextPage = true implies that the page is full:
\* items holds exactly pageSize items.
C25_NextPageImpliesFullPage ==
  (QuerySucceeded /\ PageInfo.hasNextPage) =>
    Len(Items) = call.spec.pagination.pageSize

\* C26: following nextCursor terminates: from any cursor-mode query on an
\* unmodified collection, re-querying with the returned nextCursor (same
\* filters, sorting, pageSize >= 1), the offset of each nextCursor is
\* strictly greater than that of the one before and stays below the length
\* of the sequence, so that a result with hasNextPage = false and no
\* nextCursor is reached after finitely many queries.
C26_CursorWalkAdvances ==
  (/\ QuerySucceeded
   /\ prev.kind = "cursor"
   /\ call.spec.pagination.pageSize >= 1) =>
    /\ PageInfo.hasNextPage = PageInfo.nextCursor.present
    /\ PageInfo.nextCursor.present =>
         LET sent == DecodeCursor(call.spec.pagination.cursor.s)
             next == DecodeCursor(PageInfo.nextCursor.s)
         IN /\ JsLess(sent, next)
            /\ JsLess(next, Len(Paginated(data, call.spec)))

\* the helpers of useCollectionPagination
PaginationHelpers == {"goToNextPage", "goToPreviousPage", "goToPage", "setPageSize"}

\* C30: from a QuerySpec with pageIndex >= 0, after any sequence of
\* goToNextPage, goToPreviousPage, goToPage(n) for any integer n and
\* setPageSize, pagination.pageIndex is >= 0; goToPreviousPage at
\* pageIndex 0 leaves the QuerySpec unchanged, and setPageSize resets
\* pageIndex to 0.
C30_PageIndexNeverNegative ==
  LET now == controller.querySpec
      was == controller.before
      last == controller.last
  IN /\ now.pagination.pageIndex = Undefined \/ now.pagination.pageIndex >= 0
     /\ (last.name \in PaginationHelpers /\ was.pagination.pageIndex # Undefined) =>
          /\ IsNum(now.pagination.pageIndex)
          /\ now.pagination.pageIndex >= 0
     /\ (last.name = "goToPreviousPage" /\ currentPageIndex(was) = 0) => now = was
     /\ last.name = "setPageSize" =>
          /\ now.pagination.pageIndex = 0
          /\ now.pagination.pageSize = last.pagination.pageSize

\* goToPage was called with a negative page on a spec that was on a later page
C30_Witness ==
  /\ controller.last.name = "goToPage"
  /\ controller.last.pagination.pageIndex < 0
  /\ currentPageIndex(controller.before) > 0
  /\ controller.querySpec.pagination.pageIndex = 0

\* what the table shows of the settled resource for the current QuerySpec
DisplayInfo == displayInfo(controller.querySpec, ResourceResolved, outcome.data.pageInfo)

\* C27: after the controller's filters, sorting or page size change and the
\* data is refetched, the pagination display is consistent: whenever
\* displayInfo is non-null, 1 <= start <= end <= totalCount for the current
\* querySpec and the current result.
C27_DisplayInfoConsistent ==
  (/\ pc = "settled"
   /\ controller.last.name \in {"setFilters", "setSorting", "setPageSize"}
   /\ call.spec = controller.querySpec
   /\ DisplayInfo.shown) =>
    /\ 1 <= DisplayInfo.start
    /\ DisplayInfo.start <= DisplayInfo.end
    /\ DisplayInfo.end <= DisplayInfo.totalCount


\* goToNextPage was called on a resolved page whose canGoNext was true, and
\* the query it caused has resolved
NextPageTurned ==
  /\ ResourceResolved
  /\ prev.kind = "goToNextPage"
  /\ prev.outcome.state = "fulfilled"
  /\ prev.outcome.success
  /\ canGoNext(TRUE, prev.outcome.data.pageInfo)
  /\ call.spec = controller.querySpec

\* after is the non-empty slice of at most pageSize items of seq that starts
\* where before ends
FollowsImmediately(before, after, seq, pageSize) ==
  \E k \in 0..Len(seq) :
    /\ k + Len(before) <= Len(seq)
    /\ before = SubSeq(seq, k + 1, k + Len(before))
    /\ after = SubSeq(seq, k + Len(before) + 1, Min(k + Len(before) + pageSize, Len(seq)))
    /\ after # <<>>

\* C28: when canGoNext is true, goToNextPage followed by the resulting query
\* returns the slice of the filtered-and-sorted sequence that immediately
\* follows the current page (no gap, no overlap, no repetition), in
\* offset-mode and in cursor-mode alike.
C28_NextPageFollowsCurrent ==
  NextPageTurned =>
    FollowsImmediately(prev.outcome.data.items, Items,
                       Paginated(data, call.spec), call.spec.pagination.pageSize)


\* every item of the page the table displays is selected
EveryDisplayedItemSelected ==
  \A i \in 1..Len(ResourceItems) : ResourceItems[i].id.v \in controller.selectedIds

\* C29: the header checkbox is shown as checked exactly when every item of
\* the currently displayed page is selected, after any sequence of
\* selectItem, deselectItem, toggleItem, selectAll, clearSelection and page
\* changes followed by their refetch.
C29_HeaderCheckedIffAllSelected ==
  (pc = "settled" /\ call.spec = controller.querySpec) =>
    (headerChecked(controller.selectedIds, ResourceItems) <=> EveryDisplayedItemSelected)

=============================================================================
